---- MODULE Spec2Model ----
(***************************************************************************)
(* Model of the DHCP endpoint discovery of the Azure Linux agent:          *)
(* azurelinuxagent/distro/default/dhcp.py (DhcpHandler and its helpers)    *)
(* and the OS collaborator it drives (walinuxagent/utils/osutil.py).       *)
(*                                                                         *)
(* Buffers are sequences of bytes (0..255).  The source indexes buffers    *)
(* from 0; At(buf, k) is the source's buf[k].  A Python value that may be  *)
(* None is a sequence of length 0 (None) or 1 (the value).  A Python int   *)
(* that may exceed 31 bits is a sequence of bits, most significant first.  *)
(***************************************************************************)
EXTENDS Integers, Sequences, FiniteSets, TLC

VARIABLES
    pc,                    \* position of the single thread inside run()
    mac_addr,              \* what osutil.get_mac_addr() returns
    trans_id,              \* what gen_trans_id() (os.urandom(4)) returns
    req,                   \* send_dhcp_req: req (None until built)
    hasDefaultRoute,       \* host: a default route exists
    dhcpEnabled,           \* distro: what is_dhcp_enabled() answers
    dhcpRunning,           \* host: the DHCP client service is running
    bcastRoute,            \* host: the 255.255.255.255 route is installed
    missing_default_route, \* send_dhcp_req: local of that name
    attempt,               \* _send_dhcp_req: index of duration in the schedule
    sockOpen,              \* socket_send: sock is open
    pending,               \* socket_send: exception travelling through finally
    response,              \* socket_send/_send_dhcp_req: response (None or bytes)
    resp,                  \* send_dhcp_req: resp (None or bytes)
    allows,                \* number of allow_dhcp_broadcast calls so far
    sends,                 \* number of socket_send calls so far
    sleeps,                \* durations passed to time.sleep so far
    walk,                  \* parse_dhcp_resp: i, endpoint, gateway, routes
    endpoint,              \* DhcpHandler.endpoint
    gateway,               \* DhcpHandler.gateway
    routes,                \* DhcpHandler.routes
    ridx,                  \* conf_routes: position of the for loop
    routeAdds,             \* route_add calls so far, in order
    error,                 \* exception that left run(), "" when none
    sent,                  \* what the responder encoded in response
    ifname,                \* send_dhcp_req: local of that name ("" until read)
    calls,                 \* calls of the OS collaborator and of socket_send, in order
    wire,                  \* the buffers handed to socket_send so far
    waited,                \* seconds spent blocked in sock.recv so far
    routeRets,             \* what the route_add calls returned, in order
    callPc,                \* two calls on one host: the position of each call
    callMissing,           \* two calls: missing_default_route of each call
    callAttempt,           \* two calls: the turn of the retry loop of each call
    serialized             \* two calls: whether the caller runs one at a time

vars == <<pc, mac_addr, trans_id, req, hasDefaultRoute, dhcpEnabled,
          dhcpRunning, bcastRoute, missing_default_route, attempt, sockOpen,
          pending, response, resp, allows, sends, sleeps, walk, endpoint,
          gateway, routes, ridx, routeAdds, error, sent, ifname, calls, wire,
          waited, routeRets, callPc, callMissing, callAttempt, serialized>>

(***************************************************************************)
(* Bounds of the model                                                     *)
(***************************************************************************)
\* options laid out before the end of the option area of a generated response
MaxOpts == 3
\* hardware addresses and transaction ids drawn for a call
MaxIds == 2

(***************************************************************************)
(* Python values                                                           *)
(***************************************************************************)
None == <<>>
Some(v) == <<v>>
Val(o) == o[1]

Byte == 0..255
At(buf, k) == buf[k + 1]
Slice(buf, a, b) == SubSeq(buf, a + 1, b)
Zeros(n) == [k \in 1..n |-> 0]

RECURSIVE Pow2(_)
Pow2(n) == IF n = 0 THEN 1 ELSE 2 * Pow2(n - 1)

(***************************************************************************)
(* textutil helpers used by dhcp.py                                        *)
(***************************************************************************)
\* compare_bytes(a, b, start, length): the bytes of both ranges are equal
RECURSIVE compare_bytes(_, _, _, _)
compare_bytes(a, b, start, length) ==
    IF length = 0 THEN TRUE
    ELSE IF At(a, start) # At(b, start) THEN FALSE
    ELSE compare_bytes(a, b, start + 1, length - 1)

\* the 8 bits of one byte, most significant first
ByteBits(b) == [k \in 1..8 |-> (b \div Pow2(8 - k)) % 2]

\* unpack_big_endian(buf, offset, length): result = (result << 8) | buf[offset+i]
RECURSIVE unpack_big_endian(_, _, _)
unpack_big_endian(buf, offset, length) ==
    IF length = 0 THEN <<>>
    ELSE unpack_big_endian(buf, offset, length - 1)
             \o ByteBits(At(buf, offset + length - 1))

\* int << n
ShiftLeft(bits, n) == bits \o Zeros(n)

\* bit k (1 = least significant) of an int, 0 beyond its length
BitFromLow(bits, k) == IF k <= Len(bits) THEN bits[Len(bits) - k + 1] ELSE 0

\* a & b for a mask b of 32 bits: the result has 32 bits
And32(a, b) == [k \in 1..32 |-> BitFromLow(a, 33 - k) * BitFromLow(b, 33 - k)]

Ones32 == [k \in 1..32 |-> 1]

\* the byte made of bits 8k-7..8k of a 32-bit int
OctetOf(bits, k) ==
    LET b(n) == BitFromLow(bits, 40 - 8 * k - n + 1)
    IN  128 * b(1) + 64 * b(2) + 32 * b(3) + 16 * b(4)
          + 8 * b(5) + 4 * b(6) + 2 * b(7) + b(8)

\* a 32-bit int written as its four octets, most significant first
Octets(bits) == [k \in 1..4 |-> OctetOf(And32(bits, Ones32), k)]

\* int_to_ip4_addr(addr): the dotted quad "a.b.c.d" of a 32-bit int
int_to_ip4_addr(addr) == Octets(addr)

(***************************************************************************)
(* build_dhcp_request                                                      *)
(***************************************************************************)
\* for a in range(0, len(bytes)): buf[off + a] = bytes[a]
Put(buf, off, bytes) ==
    [k \in 1..Len(buf) |->
        IF k - 1 >= off /\ k - 1 < off + Len(bytes) THEN bytes[k - off] ELSE buf[k]]

\* build_dhcp_request that also sets the broadcast bit 0x8000 of the flags field
build_dhcp_request_broadcast_flag(mac, xid) ==
    LET r0 == Zeros(244)
        r1 == Put(r0, 0, <<1, 1, 6>>)
        r2 == Put(r1, 4, SubSeq(xid, 1, 4))
        r3 == Put(r2, 28, SubSeq(mac, 1, 6))
        r4 == Put(r3, 236, <<99, 130, 83, 99, 53, 1, 1, 255>>)
    IN  Put(r4, 10, <<128, 0>>)

\* build_dhcp_request(mac_addr), with trans_id the value gen_trans_id() returned
build_dhcp_request(mac, xid) ==
    LET r0 == Zeros(244)
        r1 == Put(r0, 0, <<1, 1, 6>>)
        r2 == Put(r1, 4, SubSeq(xid, 1, 4))
        r3 == Put(r2, 28, SubSeq(mac, 1, 6))
        r4 == Put(r3, 236, <<99, 130, 83, 99, 53, 1, 1, 255>>)
    IN  r4

(***************************************************************************)
(* validate_dhcp_resp: what the call does, "return False", "return None"   *)
(* or the DhcpError it raises.  validate_dhcp_resp_without_xid is the      *)
(* function without its transaction id check.                              *)
(***************************************************************************)
validate_dhcp_resp_without_xid(request, resp_bytes) ==
    IF Len(resp_bytes) < 246 THEN "return False"
    ELSE IF ~compare_bytes(request, resp_bytes, 236, 4) THEN "raise Cookie"
    ELSE IF ~compare_bytes(request, resp_bytes, 28, 6) THEN "raise Mac Addr"
    ELSE "return None"

\* validate_dhcp_resp comparing the transaction id before the cookie
validate_dhcp_resp_xid_first(request, resp_bytes) ==
    IF Len(resp_bytes) < 246 THEN "return False"
    ELSE IF ~compare_bytes(request, resp_bytes, 4, 4) THEN "raise TransactionID"
    ELSE IF ~compare_bytes(request, resp_bytes, 236, 4) THEN "raise Cookie"
    ELSE IF ~compare_bytes(request, resp_bytes, 28, 6) THEN "raise Mac Addr"
    ELSE "return None"

validate_dhcp_resp(request, resp_bytes) ==
    IF Len(resp_bytes) < 246 THEN "return False"
    ELSE IF ~compare_bytes(request, resp_bytes, 236, 4) THEN "raise Cookie"
    ELSE IF ~compare_bytes(request, resp_bytes, 4, 4) THEN "raise TransactionID"
    ELSE IF ~compare_bytes(request, resp_bytes, 28, 6) THEN "raise Mac Addr"
    ELSE "return None"

Raises(outcome) == outcome \in {"raise Cookie", "raise TransactionID", "raise Mac Addr"}

\* __waiting_duration__ of _send_dhcp_req
waiting_duration == <<0, 10, 30, 60, 60>>

(***************************************************************************)
(* parse_route, parse_ip_addr, parse_dhcp_resp                             *)
(***************************************************************************)
Fault(kind, acc) == [routes |-> acc, fault |-> kind]

\* route_entry without net &= mask: the network keeps the bits below the prefix
route_entry_unmasked(buf, j) ==
    LET mask_len_bits == At(buf, j)
        mask_len_bytes == ((mask_len_bits + 7) - ((mask_len_bits + 7) % 8)) \div 8
        mask == And32(ShiftLeft(Ones32, 32 - mask_len_bits), Ones32)
        net0 == unpack_big_endian(buf, j + 1, mask_len_bytes)
        net1 == ShiftLeft(net0, 32 - mask_len_bytes * 8)
        gw   == unpack_big_endian(buf, j + 1 + mask_len_bytes, 4)
    IN  <<Octets(net1), Octets(mask), Octets(gw)>>

\* parse_route: the (net, mask, gateway) decoded from the entry at j, whose
\* bytes are inside the buffer and whose prefix length is at most 32
route_entry(buf, j) ==
    LET mask_len_bits == At(buf, j)
        mask_len_bytes == ((mask_len_bits + 7) - ((mask_len_bits + 7) % 8)) \div 8
        mask == And32(ShiftLeft(Ones32, 32 - mask_len_bits), Ones32)
        net0 == unpack_big_endian(buf, j + 1, mask_len_bytes)
        net1 == ShiftLeft(net0, 32 - mask_len_bytes * 8)
        net2 == And32(net1, mask)
        gw   == unpack_big_endian(buf, j + 1 + mask_len_bytes, 4)
    IN  <<Octets(net2), Octets(mask), Octets(gw)>>

\* the while loop of parse_route from cursor j; stop is i + length + 2.
\* response[j] beyond the buffer is an IndexError, a shift by 32 - mask_len_bits
\* below 0 a ValueError, unpack_big_endian beyond the buffer an IndexError
RECURSIVE route_loop(_, _, _, _)
route_loop(buf, j, stop, acc) ==
    IF ~(j < stop) THEN [routes |-> acc, fault |-> ""]
    ELSE IF j >= Len(buf) THEN Fault("IndexError", acc)
    ELSE
      LET mask_len_bits == At(buf, j)
          mask_len_bytes == ((mask_len_bits + 7) - ((mask_len_bits + 7) % 8)) \div 8
      IN  IF 32 - mask_len_bits < 0 THEN Fault("ValueError", acc)
          ELSE IF j + 1 + mask_len_bytes + 4 > Len(buf) THEN Fault("IndexError", acc)
          ELSE route_loop(buf, j + 1 + mask_len_bytes + 4, stop,
                          Append(acc, route_entry(buf, j)))

parse_route(buf, i, length) == route_loop(buf, i + 2, i + length + 2, <<>>)

\* the values j takes at the test of the while loop of parse_route, the last
\* being the one at which the loop is left, by its test or by an exception
RECURSIVE route_cursors(_, _, _)
route_cursors(buf, j, stop) ==
    IF ~(j < stop) \/ j >= Len(buf) THEN <<j>>
    ELSE
      LET mask_len_bits == At(buf, j)
          mask_len_bytes == ((mask_len_bits + 7) - ((mask_len_bits + 7) % 8)) \div 8
      IN  IF 32 - mask_len_bits < 0 \/ j + 1 + mask_len_bytes + 4 > Len(buf)
          THEN <<j>>
          ELSE <<j>> \o route_cursors(buf, j + 1 + mask_len_bytes + 4, stop)

\* parse_ip_addr without its test of the length byte
parse_ip_addr_any_length(buf, i, length) ==
    IF i + 5 < Len(buf)
    THEN Some(int_to_ip4_addr(unpack_big_endian(buf, i + 2, 4)))
    ELSE None

parse_ip_addr(buf, i, length) ==
    IF i + 5 < Len(buf)
    THEN IF length # 4 THEN None
         ELSE Some(int_to_ip4_addr(unpack_big_endian(buf, i + 2, 4)))
    ELSE None

\* option code and length byte read at cursor i (i < bytes_recv)
OptionAt(buf, i) == At(buf, i)
LengthAt(buf, i) == IF i + 1 < Len(buf) THEN At(buf, i + 1) ELSE 0

\* the walk of parse_dhcp_resp is over: the while condition fails or it breaks
WalkEnds(buf, w) == IF w.i < Len(buf) THEN OptionAt(buf, w.i) = 255 ELSE TRUE

\* a turn of the loop in which an option 249 adds its routes to those of an
\* earlier one
walk_step_extends_routes(buf, w) ==
    LET option == OptionAt(buf, w.i)
        length == LengthAt(buf, w.i)
        r      == parse_route(buf, w.i, length)
    IN  IF option = 249
        THEN [w EXCEPT !.routes = IF r.fault # "" THEN @
                                  ELSE IF @ = None THEN Some(r.routes)
                                  ELSE Some(Val(@) \o r.routes),
                       !.fault = r.fault,
                       !.i = IF r.fault = "" THEN @ + length + 2 ELSE @]
        ELSE IF option = 3
        THEN [w EXCEPT !.gateway = parse_ip_addr(buf, w.i, length),
                       !.i = @ + length + 2]
        ELSE IF option = 245
        THEN [w EXCEPT !.endpoint = parse_ip_addr(buf, w.i, length),
                       !.i = @ + length + 2]
        ELSE [w EXCEPT !.i = @ + length + 2]

\* a turn of the loop that adds the length byte alone to the cursor
walk_step_without_header(buf, w) ==
    LET option == OptionAt(buf, w.i)
        length == LengthAt(buf, w.i)
        r      == parse_route(buf, w.i, length)
    IN  IF option = 249
        THEN [w EXCEPT !.routes = IF r.fault = "" THEN Some(r.routes) ELSE @,
                       !.fault = r.fault,
                       !.i = IF r.fault = "" THEN @ + length ELSE @]
        ELSE IF option = 3
        THEN [w EXCEPT !.gateway = parse_ip_addr(buf, w.i, length),
                       !.i = @ + length]
        ELSE IF option = 245
        THEN [w EXCEPT !.endpoint = parse_ip_addr(buf, w.i, length),
                       !.i = @ + length]
        ELSE [w EXCEPT !.i = @ + length]

\* one turn of the while loop of parse_dhcp_resp at an option that is not 255
walk_step(buf, w) ==
    LET option == OptionAt(buf, w.i)
        length == LengthAt(buf, w.i)
        r      == parse_route(buf, w.i, length)
    IN  IF option = 249
        THEN [w EXCEPT !.routes = IF r.fault = "" THEN Some(r.routes) ELSE @,
                       !.fault = r.fault,
                       !.i = IF r.fault = "" THEN @ + length + 2 ELSE @]
        ELSE IF option = 3
        THEN [w EXCEPT !.gateway = parse_ip_addr(buf, w.i, length),
                       !.i = @ + length + 2]
        ELSE IF option = 245
        THEN [w EXCEPT !.endpoint = parse_ip_addr(buf, w.i, length),
                       !.i = @ + length + 2]
        ELSE [w EXCEPT !.i = @ + length + 2]

\* locals of parse_dhcp_resp before the loop
walk_start == [i |-> 240, endpoint |-> None, gateway |-> None, routes |-> None,
               fault |-> ""]
walk_idle == [i |-> 0, endpoint |-> None, gateway |-> None, routes |-> None,
              fault |-> ""]

(***************************************************************************)
(* Responses: what a DHCP responder on the network may send                *)
(***************************************************************************)
MacList == << <<0, 13, 58, 1, 2, 3>>, <<0, 21, 93, 170, 187, 204>>,
              <<255, 255, 255, 255, 255, 255>> >>
XidList == << <<222, 173, 190, 239>>, <<222, 173, 190, 238>>, <<0, 0, 0, 0>> >>
Macs == {MacList[k] : k \in 1..MaxIds}
Xids == {XidList[k] : k \in 1..MaxIds}
Cookies == {<<99, 130, 83, 99>>, <<99, 130, 83, 0>>}

\* the 240 bytes before the option area of a BOOTREPLY
Header(xid, mac, cookie) ==
    <<2, 1, 6, 0>> \o xid \o Zeros(20) \o mac \o Zeros(10) \o Zeros(192) \o cookie

\* one entry of option 249: prefix length, ceil(p/8) network bytes, gateway
EntryBytes(e) == <<e.p>> \o e.net \o e.gw

RECURSIVE Flatten(_)
Flatten(ss) == IF ss = <<>> THEN <<>> ELSE Head(ss) \o Flatten(Tail(ss))

Opt(code, payload) == <<code, Len(payload)>> \o payload

Opt249(entries) == Opt(249, Flatten([k \in 1..Len(entries) |-> EntryBytes(entries[k])]))

EndpointAddr == <<168, 63, 129, 16>>
GatewayAddr == <<10, 0, 0, 2>>

\* the route entries of the well-formed options 249
EntriesOf(name) ==
    CASE name = "R1" -> << [p |-> 24, net |-> <<10, 1, 2>>, gw |-> <<10, 0, 0, 3>>] >>
      [] name = "R2" -> << [p |-> 0, net |-> <<>>, gw |-> <<10, 0, 0, 1>>],
                           [p |-> 12, net |-> <<172, 31>>, gw |-> <<10, 0, 0, 4>>] >>
      [] name = "R3" -> << [p |-> 32, net |-> <<169, 254, 169, 254>>, gw |-> <<10, 0, 0, 5>>],
                           [p |-> 7, net |-> <<255>>, gw |-> <<192, 168, 0, 1>>] >>
      [] OTHER -> <<>>

WellFormedOpts == {"E", "G", "U", "R1", "R2", "R3"}
MalformedOpts == {"Ebad", "Rlong", "Rtrunc", "Rbig"}
OptNames == WellFormedOpts \cup MalformedOpts

\* the bytes of one option
OptBytes(name) ==
    CASE name = "E" -> Opt(245, EndpointAddr)
      [] name = "G" -> Opt(3, GatewayAddr)
      [] name = "U" -> Opt(53, <<2>>)
      [] name \in {"R1", "R2", "R3"} -> Opt249(EntriesOf(name))
      [] name = "Ebad" -> <<245, 3, 168, 63, 129>>
      [] name = "Rlong" -> <<249, 9, 24, 10, 1, 2, 10, 0, 0, 3>>
      [] name = "Rtrunc" -> <<249, 8, 24, 10>>
      [] name = "Rbig" -> <<249, 5, 40, 10, 0, 0, 3>>
      [] name = "Z" -> <<0, 0>>
      [] name = "Gbad" -> <<3, 2, 10, 0>>
      [] name = "Etrunc" -> <<245, 4, 168, 63>>
      [] name = "End" -> <<255>>

CodeOf(name) ==
    CASE name \in {"E", "Ebad", "Etrunc"} -> 245
      [] name \in {"G", "Gbad"} -> 3
      [] name = "U" -> 53
      [] name = "Z" -> 0
      [] name = "End" -> 255
      [] OTHER -> 249

Tails == {<<>>, <<255>>, <<255, 0, 0, 0, 0, 0>>}

AreaBytes(s) == Flatten([k \in 1..Len(s.opts) |-> OptBytes(s.opts[k])]) \o s.tail

NoSent == [opts |-> <<>>, tail |-> <<>>]

\* option lists of the responses of the exchange
FlowOptLists == { <<>>, <<"E", "G", "R2">>, <<"G", "R1">>, <<"R3", "E">>,
                  <<"Rtrunc">>, <<"G", "Rbig">> }
\* lengths a datagram may be cut to
ShortLens == {0, 100, 245}

Cut(buf, n) == IF n < Len(buf) THEN SubSeq(buf, 1, n) ELSE buf

(***************************************************************************)
(* run(): send_dhcp_req then conf_routes                                   *)
(***************************************************************************)
\* two calls of send_dhcp_req on one host
CallIds == {"a", "b"}
callVars == <<callPc, callMissing, callAttempt, serialized>>

\* no call beside the one of run() is in flight
NoOtherCalls ==
    /\ callPc = [c \in CallIds |-> "idle"]
    /\ callMissing = [c \in CallIds |-> FALSE]
    /\ callAttempt = [c \in CallIds |-> 0]
    /\ serialized = TRUE

Init ==
    /\ pc = "start"
    /\ mac_addr \in Macs
    /\ trans_id \in Xids
    /\ req = None
    /\ hasDefaultRoute \in BOOLEAN
    /\ dhcpEnabled \in BOOLEAN
    /\ dhcpRunning = dhcpEnabled
    /\ bcastRoute = FALSE
    /\ missing_default_route = FALSE
    /\ attempt = 0
    /\ sockOpen = FALSE
    /\ pending = ""
    /\ response = None
    /\ resp = None
    /\ allows = 0
    /\ sends = 0
    /\ sleeps = <<>>
    /\ walk = walk_idle
    /\ endpoint = None
    /\ gateway = None
    /\ routes = None
    /\ ridx = 0
    /\ routeAdds = <<>>
    /\ error = ""
    /\ sent = NoSent
    /\ ifname = ""
    /\ calls = <<>>
    /\ wire = {}
    /\ waited = 0
    /\ routeRets = <<>>
    /\ NoOtherCalls

inputs == <<mac_addr, trans_id, hasDefaultRoute, dhcpEnabled>>

loopVars == <<attempt, sockOpen, pending, response, allows, sends, sleeps, sent,
              wire, waited>>
leaseVars == <<walk, endpoint, gateway, routes, ridx, routeAdds, routeRets>>

\* one entry of calls: the function called and its argument ("" when none)
Call(name, arg) == <<name, arg>>

\* get_if_name: the name of the first active interface, the one whose hardware
\* address get_mac_addr returns
IfNameList == <<"eth0", "eth1", "wlan0">>
get_if_name(mac) == IfNameList[CHOOSE k \in 1..Len(MacList) : MacList[k] = mac]

\* sock.settimeout(10)
timeoutSeconds == 10

\* send_dhcp_req: get_mac_addr, build_dhcp_request
BuildRequest ==
    /\ pc = "start"
    /\ req' = Some(build_dhcp_request(mac_addr, trans_id))
    /\ calls' = Append(calls, Call("build_dhcp_request", ""))
    /\ pc' = "set_route"
    /\ UNCHANGED <<inputs, callVars, loopVars, leaseVars, dhcpRunning, bcastRoute,
                   missing_default_route, resp, error, ifname>>

\* send_dhcp_req: is_missing_default_route, get_if_name, set_route_for_dhcp_broadcast
SetRoute ==
    /\ pc = "set_route"
    /\ missing_default_route' = ~hasDefaultRoute
    /\ ifname' = get_if_name(mac_addr)
    /\ bcastRoute' = IF ~hasDefaultRoute THEN TRUE ELSE bcastRoute
    /\ calls' = IF ~hasDefaultRoute
                THEN Append(calls, Call("set_route_for_dhcp_broadcast", ifname'))
                ELSE calls
    /\ pc' = "stop_dhcp"
    /\ UNCHANGED <<inputs, callVars, loopVars, leaseVars, req, dhcpRunning, resp, error>>

\* send_dhcp_req: is_dhcp_enabled, stop_dhcp_service; then _send_dhcp_req begins
StopDhcp ==
    /\ pc = "stop_dhcp"
    /\ dhcpRunning' = IF dhcpEnabled THEN FALSE ELSE dhcpRunning
    /\ calls' = IF dhcpEnabled THEN Append(calls, Call("stop_dhcp_service", ""))
                ELSE calls
    /\ attempt' = 1
    /\ pc' = "allow"
    /\ UNCHANGED <<inputs, callVars, leaseVars, req, bcastRoute, missing_default_route,
                   sockOpen, pending, response, allows, sends, sleeps, sent,
                   wire, waited, resp, error, ifname>>

\* _send_dhcp_req: allow_dhcp_broadcast, which returns or fails with an error
\* that is no DhcpError and so leaves _send_dhcp_req, send_dhcp_req and run:
\* the try block catches DhcpError alone.  (OpenPortForDhcp of osutil.py, the
\* operation as the OS collaborator defines it, takes no self and names the
\* undefined shellutill: called as a method it fails with a TypeError.)
AllowDhcpBroadcast ==
    /\ pc = "allow"
    /\ allows' = allows + 1
    /\ calls' = Append(calls, Call("allow_dhcp_broadcast", ""))
    /\ \/ /\ pc' = "socket"
          /\ error' = error
       \/ /\ pc' = "failed"
          /\ error' = "Error"
    /\ UNCHANGED <<inputs, callVars, leaseVars, req, dhcpRunning, bcastRoute,
                   missing_default_route, attempt, sockOpen, pending, response,
                   sends, sleeps, sent, wire, waited, resp, ifname>>

\* socket_send handed a request that is built anew for the attempt, with the
\* transaction id gen_trans_id returns then
SocketOpenRebuilds ==
    /\ pc = "socket"
    /\ \E outcome \in {"socket fails", "bind fails", "sent"} :
          /\ sockOpen' = (outcome # "socket fails")
          /\ sends' = sends + 1
          /\ pending' = IF outcome = "sent" THEN "" ELSE "DhcpError"
          /\ pc' = IF outcome = "sent" THEN "recv" ELSE "finally"
    /\ \E xid \in Xids : wire' = wire \cup {build_dhcp_request(mac_addr, xid)}
    /\ calls' = calls \o <<Call("build_dhcp_request", ""), Call("socket_send", "")>>
    /\ UNCHANGED <<inputs, callVars, leaseVars, req, dhcpRunning, bcastRoute,
                   missing_default_route, attempt, response, allows, sleeps, sent,
                   waited, resp, error, ifname>>

\* socket_send: socket(), setsockopt, bind and sendto; an IOError of any of
\* them becomes a DhcpError
SocketOpen ==
    /\ pc = "socket"
    /\ \E outcome \in {"socket fails", "bind fails", "sent"} :
          /\ sockOpen' = (outcome # "socket fails")
          /\ sends' = sends + 1
          /\ pending' = IF outcome = "sent" THEN "" ELSE "DhcpError"
          /\ pc' = IF outcome = "sent" THEN "recv" ELSE "finally"
    /\ wire' = wire \cup {Val(req)}
    /\ calls' = Append(calls, Call("socket_send", ""))
    /\ UNCHANGED <<inputs, callVars, leaseVars, req, dhcpRunning, bcastRoute,
                   missing_default_route, attempt, response, allows, sleeps, sent,
                   waited, resp, error, ifname>>

\* the datagrams sock.recv may return for the request
Received(s, xid, mac, cookie, n) == Cut(Header(xid, mac, cookie) \o AreaBytes(s), n)

\* whole seconds sock.recv blocks before a datagram arrives: fewer than
\* timeoutSeconds; the model keeps the datagram that is there within the second
RecvWaits == {0}

\* socket_send that calls sock.recv a second time after a first timeout
SocketRecvTwice ==
    /\ pc = "recv"
    /\ \/ /\ pending' = "DhcpError"
          /\ waited' = waited + 2 * timeoutSeconds
          /\ UNCHANGED <<response, sent>>
       \/ \E opts \in FlowOptLists, tail \in Tails \ {<<>>}, xid \in Xids,
             mac \in Macs, cookie \in Cookies, n \in ShortLens \cup {1024},
             w \in RecvWaits :
             /\ waited' = waited + w
             /\ IF xid = trans_id /\ mac = mac_addr /\ cookie = <<99, 130, 83, 99>>
                   /\ n \in {245, 1024}
                THEN TRUE
                ELSE opts = <<"E", "G", "R2">> /\ tail = <<255>> /\ n # 245
             /\ sent' = [opts |-> opts, tail |-> tail]
             /\ response' = Some(Received(sent', xid, mac, cookie, n))
             /\ pending' = ""
    /\ pc' = "finally"
    /\ UNCHANGED <<inputs, callVars, leaseVars, req, dhcpRunning, bcastRoute,
                   missing_default_route, attempt, sockOpen, allows, sends, sleeps,
                   wire, resp, error, ifname, calls>>

\* socket_send: settimeout(10), recv(1024): one datagram, or socket.timeout
\* after timeoutSeconds
SocketRecv ==
    /\ pc = "recv"
    /\ \/ /\ pending' = "DhcpError"
          /\ waited' = waited + timeoutSeconds
          /\ UNCHANGED <<response, sent>>
       \/ \E opts \in FlowOptLists, tail \in Tails \ {<<>>}, xid \in Xids,
             mac \in Macs, cookie \in Cookies, n \in ShortLens \cup {1024},
             w \in RecvWaits :
             /\ waited' = waited + w
             /\ IF xid = trans_id /\ mac = mac_addr /\ cookie = <<99, 130, 83, 99>>
                   /\ n \in {245, 1024}
                THEN TRUE
                ELSE opts = <<"E", "G", "R2">> /\ tail = <<255>> /\ n # 245
             /\ sent' = [opts |-> opts, tail |-> tail]
             /\ response' = Some(Received(sent', xid, mac, cookie, n))
             /\ pending' = ""
    /\ pc' = "finally"
    /\ UNCHANGED <<inputs, callVars, leaseVars, req, dhcpRunning, bcastRoute,
                   missing_default_route, attempt, sockOpen, allows, sends, sleeps,
                   wire, resp, error, ifname, calls>>

\* socket_send closing its socket on the return path only, not in a finally
SocketFinallyLeavesOpen ==
    /\ pc = "finally"
    /\ sockOpen' = IF pending = "" THEN FALSE ELSE sockOpen
    /\ pending' = ""
    /\ pc' = IF pending = "" THEN "validate" ELSE "except"
    /\ UNCHANGED <<inputs, callVars, leaseVars, req, dhcpRunning, bcastRoute,
                   missing_default_route, attempt, response, allows, sends, sleeps,
                   sent, wire, waited, resp, error, ifname, calls>>

\* socket_send: finally sock.close(); then the return or the DhcpError
SocketFinally ==
    /\ pc = "finally"
    /\ sockOpen' = FALSE
    /\ pending' = ""
    /\ pc' = IF pending = "" THEN "validate" ELSE "except"
    /\ UNCHANGED <<inputs, callVars, leaseVars, req, dhcpRunning, bcastRoute,
                   missing_default_route, attempt, response, allows, sends, sleeps,
                   sent, wire, waited, resp, error, ifname, calls>>

\* the try block without its return: a validated response is followed by the
\* sleep and the next attempt
ValidateWithoutReturn ==
    /\ pc = "validate"
    /\ pc' = "except"
    /\ UNCHANGED <<inputs, callVars, loopVars, leaseVars, req, dhcpRunning, bcastRoute,
                   missing_default_route, resp, error, ifname, calls>>

\* _send_dhcp_req: validate_dhcp_resp(request, response); return response
Validate ==
    /\ pc = "validate"
    /\ IF Raises(validate_dhcp_resp(Val(req), Val(response)))
       THEN pc' = "except" /\ resp' = resp
       ELSE pc' = "start_dhcp" /\ resp' = response
    /\ UNCHANGED <<inputs, callVars, loopVars, leaseVars, req, dhcpRunning, bcastRoute,
                   missing_default_route, error, ifname, calls>>

\* _send_dhcp_req raising the DhcpError itself after the last sleep, so that
\* send_dhcp_req ends before its cleanup
SleepAfterFailureRaises ==
    /\ pc = "except"
    /\ sleeps' = Append(sleeps, waiting_duration[attempt])
    /\ response' = None
    /\ sent' = NoSent
    /\ IF attempt < Len(waiting_duration)
       THEN attempt' = attempt + 1 /\ pc' = "allow" /\ resp' = resp /\ error' = error
       ELSE attempt' = attempt /\ pc' = "failed" /\ resp' = None /\ error' = "DhcpError"
    /\ UNCHANGED <<inputs, callVars, leaseVars, req, dhcpRunning, bcastRoute,
                   missing_default_route, sockOpen, pending, allows, sends, wire,
                   waited, ifname, calls>>

\* _send_dhcp_req with allow_dhcp_broadcast called for the first attempt only
SleepAfterFailureSkipsAllow ==
    /\ pc = "except"
    /\ sleeps' = Append(sleeps, waiting_duration[attempt])
    /\ response' = None
    /\ sent' = NoSent
    /\ IF attempt < Len(waiting_duration)
       THEN attempt' = attempt + 1 /\ pc' = "socket" /\ resp' = resp
       ELSE attempt' = attempt /\ pc' = "start_dhcp" /\ resp' = None
    /\ UNCHANGED <<inputs, callVars, leaseVars, req, dhcpRunning, bcastRoute,
                   missing_default_route, sockOpen, pending, allows, sends, wire,
                   waited, error, ifname, calls>>

\* _send_dhcp_req: except DhcpError: logger.warn; time.sleep(duration); the
\* next duration, or return None after the last
SleepAfterFailure ==
    /\ pc = "except"
    /\ sleeps' = Append(sleeps, waiting_duration[attempt])
    /\ response' = None
    /\ sent' = NoSent
    /\ IF attempt < Len(waiting_duration)
       THEN attempt' = attempt + 1 /\ pc' = "allow" /\ resp' = resp
       ELSE attempt' = attempt /\ pc' = "start_dhcp" /\ resp' = None
    /\ UNCHANGED <<inputs, callVars, leaseVars, req, dhcpRunning, bcastRoute,
                   missing_default_route, sockOpen, pending, allows, sends, wire,
                   waited, error, ifname, calls>>

\* send_dhcp_req: is_dhcp_enabled, start_dhcp_service
StartDhcp ==
    /\ pc = "start_dhcp"
    /\ dhcpRunning' = IF dhcpEnabled THEN TRUE ELSE dhcpRunning
    /\ calls' = IF dhcpEnabled THEN Append(calls, Call("start_dhcp_service", ""))
                ELSE calls
    /\ pc' = "remove_route"
    /\ UNCHANGED <<inputs, callVars, loopVars, leaseVars, req, bcastRoute,
                   missing_default_route, resp, error, ifname>>

\* send_dhcp_req: remove_route_for_dhcp_broadcast
RemoveRoute ==
    /\ pc = "remove_route"
    /\ bcastRoute' = IF missing_default_route THEN FALSE ELSE bcastRoute
    /\ calls' = IF missing_default_route
                THEN Append(calls, Call("remove_route_for_dhcp_broadcast", ifname))
                ELSE calls
    /\ pc' = "check_resp"
    /\ UNCHANGED <<inputs, callVars, loopVars, leaseVars, req, dhcpRunning,
                   missing_default_route, resp, error, ifname>>

\* send_dhcp_req: raise DhcpError if resp is None, else parse_dhcp_resp begins
CheckResp ==
    /\ pc = "check_resp"
    /\ IF resp = None
       THEN pc' = "failed" /\ error' = "DhcpError" /\ walk' = walk
       ELSE pc' = "parse" /\ error' = error /\ walk' = walk_start
    /\ UNCHANGED <<inputs, callVars, loopVars, req, dhcpRunning, bcastRoute,
                   missing_default_route, resp, endpoint, gateway, routes, ridx,
                   routeAdds, routeRets, ifname, calls>>

\* a turn of the walk that stores what it decoded in the handler at once
ParseOptionAssignsFields ==
    /\ pc = "parse"
    /\ ~WalkEnds(Val(resp), walk)
    /\ walk' = walk_step(Val(resp), walk)
    /\ endpoint' = walk'.endpoint
    /\ gateway' = walk'.gateway
    /\ routes' = walk'.routes
    /\ IF walk'.fault # ""
       THEN pc' = "failed" /\ error' = walk'.fault
       ELSE pc' = pc /\ error' = error
    /\ UNCHANGED <<inputs, callVars, loopVars, req, dhcpRunning, bcastRoute,
                   missing_default_route, resp, ridx,
                   routeAdds, routeRets, ifname, calls>>

\* parse_dhcp_resp: one turn of the while loop; an exception of parse_route
\* leaves parse_dhcp_resp, send_dhcp_req and run
ParseOption ==
    /\ pc = "parse"
    /\ ~WalkEnds(Val(resp), walk)
    /\ walk' = walk_step(Val(resp), walk)
    /\ IF walk'.fault # ""
       THEN pc' = "failed" /\ error' = walk'.fault
       ELSE pc' = pc /\ error' = error
    /\ UNCHANGED <<inputs, callVars, loopVars, req, dhcpRunning, bcastRoute,
                   missing_default_route, resp, endpoint, gateway, routes, ridx,
                   routeAdds, routeRets, ifname, calls>>

\* parse_dhcp_resp returns; send_dhcp_req assigns endpoint, gateway, routes
ParseReturn ==
    /\ pc = "parse"
    /\ WalkEnds(Val(resp), walk)
    /\ endpoint' = walk.endpoint
    /\ gateway' = walk.gateway
    /\ routes' = walk.routes
    /\ pc' = "conf_gateway"
    /\ UNCHANGED <<inputs, callVars, loopVars, req, dhcpRunning, bcastRoute,
                   missing_default_route, resp, walk, ridx, routeAdds, routeRets,
                   error, ifname, calls>>

\* route_add(net, mask, gateway) of the OS collaborator: the call it receives
route_add(net, mask, gw) == <<net, mask, gw>>

ZeroAddr == <<0, 0, 0, 0>>

\* what shellutil.Run returns to route_add: the exit status of the route
\* command, 0 on success; a failing command does not raise
RunResults == {0, 1}

\* conf_routes: the default gateway; the value route_add returns is dropped
ConfGateway ==
    /\ pc = "conf_gateway"
    /\ IF gateway # None
       THEN /\ routeAdds' = Append(routeAdds, route_add(ZeroAddr, ZeroAddr, Val(gateway)))
            /\ \E ret \in RunResults : routeRets' = Append(routeRets, ret)
       ELSE UNCHANGED <<routeAdds, routeRets>>
    /\ ridx' = 1
    /\ pc' = "conf_routes"
    /\ UNCHANGED <<inputs, callVars, loopVars, req, dhcpRunning, bcastRoute,
                   missing_default_route, resp, walk, endpoint, gateway, routes,
                   error, ifname, calls>>

\* conf_routes walking self.routes from its last route to its first
ConfRouteReversed ==
    /\ pc = "conf_routes"
    /\ routes # None
    /\ ridx <= Len(Val(routes))
    /\ LET route == Val(routes)[Len(Val(routes)) - ridx + 1]
       IN  routeAdds' = Append(routeAdds, route_add(route[1], route[2], route[3]))
    /\ \E ret \in RunResults : routeRets' = Append(routeRets, ret)
    /\ ridx' = ridx + 1
    /\ UNCHANGED <<inputs, callVars, loopVars, req, dhcpRunning, bcastRoute,
                   missing_default_route, resp, walk, endpoint, gateway, routes,
                   error, pc, ifname, calls>>

\* conf_routes leaving its for loop at the first route_add that fails
ConfRouteBreaksOnFailure ==
    /\ pc = "conf_routes"
    /\ routes # None
    /\ ridx <= Len(Val(routes))
    /\ LET route == Val(routes)[ridx]
       IN  routeAdds' = Append(routeAdds, route_add(route[1], route[2], route[3]))
    /\ \E ret \in RunResults :
          /\ routeRets' = Append(routeRets, ret)
          /\ ridx' = IF ret # 0 THEN Len(Val(routes)) + 1 ELSE ridx + 1
    /\ UNCHANGED <<inputs, callVars, loopVars, req, dhcpRunning, bcastRoute,
                   missing_default_route, resp, walk, endpoint, gateway, routes,
                   error, pc, ifname, calls>>

\* conf_routes: one turn of for route in self.routes; the value route_add
\* returns is dropped
ConfRoute ==
    /\ pc = "conf_routes"
    /\ routes # None
    /\ ridx <= Len(Val(routes))
    /\ LET route == Val(routes)[ridx]
       IN  routeAdds' = Append(routeAdds, route_add(route[1], route[2], route[3]))
    /\ \E ret \in RunResults : routeRets' = Append(routeRets, ret)
    /\ ridx' = ridx + 1
    /\ UNCHANGED <<inputs, callVars, loopVars, req, dhcpRunning, bcastRoute,
                   missing_default_route, resp, walk, endpoint, gateway, routes,
                   error, pc, ifname, calls>>

\* conf_routes and run return
ConfDone ==
    /\ pc = "conf_routes"
    /\ IF routes = None THEN TRUE ELSE ridx > Len(Val(routes))
    /\ pc' = "done"
    /\ UNCHANGED <<inputs, callVars, loopVars, leaseVars, req, dhcpRunning, bcastRoute,
                   missing_default_route, resp, error, ifname, calls>>

\* the host, not the handler: a default route appears while the call runs
\* (the network comes up, another client configures it)
DefaultRouteAppears ==
    /\ pc \notin {"done", "failed"}
    /\ ~hasDefaultRoute
    /\ hasDefaultRoute' = TRUE
    /\ UNCHANGED <<pc, mac_addr, trans_id, dhcpEnabled, callVars, loopVars, leaseVars, req,
                   dhcpRunning, bcastRoute, missing_default_route, resp, error,
                   ifname, calls>>

Next ==
    \/ BuildRequest
    \/ SetRoute
    \/ StopDhcp
    \/ AllowDhcpBroadcast
    \/ SocketOpen
    \/ SocketRecv
    \/ SocketFinally
    \/ Validate
    \/ SleepAfterFailure
    \/ StartDhcp
    \/ RemoveRoute
    \/ CheckResp
    \/ ParseOption
    \/ ParseReturn
    \/ ConfGateway
    \/ ConfRoute
    \/ ConfDone
    \/ DefaultRouteAppears

Spec == Init /\ [][Next]_vars

(***************************************************************************)
(* parse_dhcp_resp and conf_routes on their own, for every generated       *)
(* option area                                                             *)
(***************************************************************************)
OptLists == UNION {[1..n -> OptNames] : n \in 0..MaxOpts}

\* option areas beside those: an option of length 0, an option 3 of length 2,
\* an option 245 whose payload is cut off, and options behind an option 255
EdgeOptLists == { <<"Z", "E", "G">>, <<"E", "Gbad", "R1">>, <<"G", "Gbad">>,
                  <<"G", "Etrunc">>, <<"Gbad", "U", "G">>,
                  <<"G", "End", "E", "R1">>, <<"End", "Rbig">> }

InitParse ==
    /\ pc = "parse"
    /\ mac_addr = MacList[1]
    /\ trans_id = XidList[1]
    /\ req = None
    /\ hasDefaultRoute = TRUE
    /\ dhcpEnabled = FALSE
    /\ dhcpRunning = FALSE
    /\ bcastRoute = FALSE
    /\ missing_default_route = FALSE
    /\ attempt = 0
    /\ sockOpen = FALSE
    /\ pending = ""
    /\ response = None
    /\ \E opts \in OptLists \cup EdgeOptLists, tail \in {<<>>, <<255>>} :
          /\ sent = [opts |-> opts, tail |-> tail]
          /\ resp = Some(Received(sent, trans_id, mac_addr, <<99, 130, 83, 99>>, 1024))
    /\ allows = 0
    /\ sends = 0
    /\ sleeps = <<>>
    /\ walk = walk_start
    /\ endpoint = None
    /\ gateway = None
    /\ routes = None
    /\ ridx = 0
    /\ routeAdds = <<>>
    /\ error = ""
    /\ ifname = ""
    /\ calls = <<>>
    /\ wire = {}
    /\ waited = 0
    /\ routeRets = <<>>
    /\ NoOtherCalls

NextParse ==
    \/ ParseOption
    \/ ParseReturn
    \/ ConfGateway
    \/ ConfRoute
    \/ ConfDone

SpecParse == InitParse /\ [][NextParse]_vars

(***************************************************************************)
(* Two calls of send_dhcp_req on one host: what each does to the routing   *)
(* table and to the DHCP client service, which the calls share             *)
(***************************************************************************)
\* what the two-call steps leave alone
oneCallVars == <<pc, mac_addr, trans_id, req, missing_default_route, loopVars,
                 leaseVars, resp, error, ifname, calls>>

\* the caller of send_dhcp_req: when it serializes, a call begins only while
\* no other call is in flight
MayBegin(c) ==
    serialized => \A d \in CallIds \ {c} : callPc[d] \in {"idle", "done", "failed"}

\* send_dhcp_req begins: get_mac_addr, build_dhcp_request,
\* is_missing_default_route
CallBegin(c) ==
    /\ callPc[c] = "idle"
    /\ MayBegin(c)
    /\ callMissing' = [callMissing EXCEPT ![c] = ~hasDefaultRoute]
    /\ callPc' = [callPc EXCEPT ![c] = "set_route"]
    /\ UNCHANGED <<oneCallVars, hasDefaultRoute, dhcpEnabled, dhcpRunning,
                   bcastRoute, callAttempt, serialized>>

\* get_if_name; if missing_default_route: set_route_for_dhcp_broadcast(ifname)
CallSetRoute(c) ==
    /\ callPc[c] = "set_route"
    /\ bcastRoute' = IF callMissing[c] THEN TRUE ELSE bcastRoute
    /\ callPc' = [callPc EXCEPT ![c] = "stop_dhcp"]
    /\ UNCHANGED <<oneCallVars, hasDefaultRoute, dhcpEnabled, dhcpRunning,
                   callMissing, callAttempt, serialized>>

\* a call that leaves the DHCP client service running
CallStopDhcpSkipped(c) ==
    /\ callPc[c] = "stop_dhcp"
    /\ callAttempt' = [callAttempt EXCEPT ![c] = 1]
    /\ callPc' = [callPc EXCEPT ![c] = "allow"]
    /\ UNCHANGED <<oneCallVars, hasDefaultRoute, dhcpEnabled, dhcpRunning, bcastRoute,
                   callMissing, serialized>>

\* if is_dhcp_enabled(): stop_dhcp_service(); _send_dhcp_req is entered
CallStopDhcp(c) ==
    /\ callPc[c] = "stop_dhcp"
    /\ dhcpRunning' = IF dhcpEnabled THEN FALSE ELSE dhcpRunning
    /\ callAttempt' = [callAttempt EXCEPT ![c] = 1]
    /\ callPc' = [callPc EXCEPT ![c] = "allow"]
    /\ UNCHANGED <<oneCallVars, hasDefaultRoute, dhcpEnabled, bcastRoute,
                   callMissing, serialized>>

\* _send_dhcp_req: allow_dhcp_broadcast, which returns or fails with an error
\* that is no DhcpError and leaves send_dhcp_req without the cleanup
CallAllow(c) ==
    /\ callPc[c] = "allow"
    /\ \E raised \in BOOLEAN :
          callPc' = [callPc EXCEPT ![c] = IF raised THEN "failed" ELSE "send"]
    /\ UNCHANGED <<oneCallVars, hasDefaultRoute, dhcpEnabled, dhcpRunning,
                   bcastRoute, callMissing, callAttempt, serialized>>

\* _send_dhcp_req: socket_send and validate_dhcp_resp; the response is
\* returned, or a DhcpError is caught, the duration is slept and the next turn
\* begins, or the loop is exhausted and None is returned
CallSend(c) ==
    /\ callPc[c] = "send"
    /\ \E accepted \in BOOLEAN :
          IF accepted \/ callAttempt[c] = Len(waiting_duration)
          THEN /\ callPc' = [callPc EXCEPT ![c] = "start_dhcp"]
               /\ callAttempt' = callAttempt
          ELSE /\ callPc' = [callPc EXCEPT ![c] = "allow"]
               /\ callAttempt' = [callAttempt EXCEPT ![c] = @ + 1]
    /\ UNCHANGED <<oneCallVars, hasDefaultRoute, dhcpEnabled, dhcpRunning,
                   bcastRoute, callMissing, serialized>>

\* if is_dhcp_enabled(): start_dhcp_service()
CallStartDhcp(c) ==
    /\ callPc[c] = "start_dhcp"
    /\ dhcpRunning' = IF dhcpEnabled THEN TRUE ELSE dhcpRunning
    /\ callPc' = [callPc EXCEPT ![c] = "remove_route"]
    /\ UNCHANGED <<oneCallVars, hasDefaultRoute, dhcpEnabled, bcastRoute,
                   callMissing, callAttempt, serialized>>

\* if missing_default_route: remove_route_for_dhcp_broadcast(ifname); the
\* call goes on to the test of resp, which touches nothing the calls share
CallRemoveRoute(c) ==
    /\ callPc[c] = "remove_route"
    /\ bcastRoute' = IF callMissing[c] THEN FALSE ELSE bcastRoute
    /\ callPc' = [callPc EXCEPT ![c] = "done"]
    /\ UNCHANGED <<oneCallVars, hasDefaultRoute, dhcpEnabled, dhcpRunning,
                   callMissing, callAttempt, serialized>>

InitTwoCalls ==
    /\ pc = "start"
    /\ mac_addr = MacList[1]
    /\ trans_id = XidList[1]
    /\ req = None
    /\ hasDefaultRoute \in BOOLEAN
    /\ dhcpEnabled \in BOOLEAN
    /\ dhcpRunning = dhcpEnabled
    /\ bcastRoute = FALSE
    /\ missing_default_route = FALSE
    /\ attempt = 0
    /\ sockOpen = FALSE
    /\ pending = ""
    /\ response = None
    /\ resp = None
    /\ sent = NoSent
    /\ allows = 0
    /\ sends = 0
    /\ sleeps = <<>>
    /\ walk = walk_idle
    /\ endpoint = None
    /\ gateway = None
    /\ routes = None
    /\ ridx = 0
    /\ routeAdds = <<>>
    /\ error = ""
    /\ ifname = ""
    /\ calls = <<>>
    /\ wire = {}
    /\ waited = 0
    /\ routeRets = <<>>
    /\ callPc = [c \in CallIds |-> "idle"]
    /\ callMissing = [c \in CallIds |-> FALSE]
    /\ callAttempt = [c \in CallIds |-> 0]
    /\ serialized \in BOOLEAN

NextTwoCalls ==
    \E c \in CallIds :
        \/ CallBegin(c)
        \/ CallSetRoute(c)
        \/ CallStopDhcp(c)
        \/ CallAllow(c)
        \/ CallSend(c)
        \/ CallStartDhcp(c)
        \/ CallRemoveRoute(c)

SpecTwoCalls == InitTwoCalls /\ [][NextTwoCalls]_vars

(***************************************************************************)
(* Properties                                                              *)
(***************************************************************************)
\* positions after _send_dhcp_req has returned to send_dhcp_req
AfterLoop == {"start_dhcp", "remove_route", "check_resp", "parse", "conf_gateway",
              "conf_routes", "done", "failed"}
\* positions at which run() has ended
Ended == {"done", "failed"}
\* the attempt under way has received a datagram and validated it
Validated == response # None /\ pc \notin {"finally", "validate"}
\* the current attempt ended with the response returned by _send_dhcp_req
Accepted == pc \in AfterLoop /\ error # "Error" /\ resp = response

\* the three fields of the response equal the request's
FieldsMatch(request, r) ==
    /\ Slice(r, 236, 240) = Slice(request, 236, 240)
    /\ Slice(r, 4, 8) = Slice(request, 4, 8)
    /\ Slice(r, 28, 34) = Slice(request, 28, 34)

\* C1: a response shorter than 246 bytes is rejected: its attempt fails and
\* _send_dhcp_req does not return it
C1_ShortResponseRejected ==
    (response # None /\ Len(Val(response)) < 246)
        => (pc \in {"finally", "validate", "except"} /\ resp # response)

\* the last attempt failed: no datagram (transport failure) or a datagram
\* that validation does not pass
LastAttemptFailed ==
    IF response = None THEN TRUE
    ELSE validate_dhcp_resp(Val(req), Val(response)) # "return None"

\* C2: when every attempt fails, _send_dhcp_req has made exactly 5 attempts
\* and send_dhcp_req ends with the one DhcpError
C2_ExhaustionAfterFiveAttempts ==
    (pc \in AfterLoop /\ error # "Error" /\ LastAttemptFailed)
        => /\ sends = 5
           /\ attempt = 5
           /\ resp = None
           /\ pc \notin {"parse", "conf_gateway", "conf_routes", "done"}
           /\ pc = "failed" => error = "DhcpError"

\* C3: when attempt k receives a response that passes validation, the loop
\* returns that response after exactly k attempts and k - 1 sleeps, and
\* neither attempts nor sleeps again
C3_ReturnsFirstValidated ==
    (Validated /\ validate_dhcp_resp(Val(req), Val(response)) = "return None")
        => /\ pc \in AfterLoop
           /\ resp = response
           /\ sends = attempt
           /\ allows = attempt
           /\ sleeps = SubSeq(waiting_duration, 1, attempt - 1)

C3_Witness ==
    /\ pc = "done"
    /\ attempt = 3
    /\ resp = response
    /\ validate_dhcp_resp(Val(req), Val(response)) = "return None"

\* C4: however run() ends, the temporary broadcast route is gone and the
\* DHCP client service runs again if it ran before
C4_HostRestored ==
    pc \in Ended => (bcastRoute = FALSE /\ dhcpRunning = dhcpEnabled)

\* C5: a response of at least 246 bytes is accepted exactly when cookie,
\* transaction id and hardware address equal the request's
C5_AcceptedIffFieldsMatch ==
    (Validated /\ Len(Val(response)) >= 246)
        => /\ Accepted <=> FieldsMatch(Val(req), Val(response))
           /\ pc = "except" <=> ~FieldsMatch(Val(req), Val(response))

C5_Witness ==
    /\ pc = "except"
    /\ response # None
    /\ Len(Val(response)) >= 246
    /\ Slice(Val(response), 236, 240) = Slice(Val(req), 236, 240)
    /\ Slice(Val(response), 28, 34) = Slice(Val(req), 28, 34)
    /\ Slice(Val(response), 4, 8) # Slice(Val(req), 4, 8)

\* C6: parse_dhcp_resp never fails and never reads outside the buffer
C6_ParseNeverFaults == walk.fault = "" /\ error \notin {"IndexError", "ValueError"}

\* what a well-formed entry of option 249 stands for: the network left-justified
\* with the bits below the prefix zero, the mask of p leading ones, the gateway
MaskOctet(p, k) ==
    LET n == p - 8 * (k - 1)
    IN  IF n >= 8 THEN 255 ELSE IF n <= 0 THEN 0 ELSE 256 - Pow2(8 - n)
NetOctet(e, k) ==
    LET b == (e.net \o Zeros(4 - Len(e.net)))[k]
        n == e.p - 8 * (k - 1)
    IN  IF n >= 8 THEN b ELSE IF n <= 0 THEN 0 ELSE b - (b % Pow2(8 - n))
ExpectedRoute(e) ==
    <<[k \in 1..4 |-> NetOctet(e, k)], [k \in 1..4 |-> MaskOctet(e.p, k)], e.gw>>
ExpectedRoutes(name) ==
    [k \in 1..Len(EntriesOf(name)) |-> ExpectedRoute(EntriesOf(name)[k])]

Count(s, code) == Cardinality({k \in 1..Len(s.opts) : CodeOf(s.opts[k]) = code})
RouteOptOf(s) == s.opts[CHOOSE k \in 1..Len(s.opts) : CodeOf(s.opts[k]) = 249]
Parsed == pc \in {"conf_gateway", "conf_routes", "done"}

\* well-formed options 245, 3 and 249, once each in any order, then option 255
C7Case ==
    /\ sent.tail # <<>>
    /\ \A k \in 1..Len(sent.opts) : sent.opts[k] \in WellFormedOpts
    /\ Count(sent, 245) = 1
    /\ Count(sent, 3) = 1
    /\ Count(sent, 249) = 1

\* C7: from well-formed options 245, 3 and 249 followed by 255, parsing
\* returns the encoded endpoint and gateway and the encoded routes in order
C7_WellFormedLeaseDecoded ==
    C7Case => /\ pc # "failed"
              /\ walk.fault = ""
              /\ Parsed => /\ endpoint = Some(EndpointAddr)
                           /\ gateway = Some(GatewayAddr)
                           /\ routes = Some(ExpectedRoutes(RouteOptOf(sent)))

C7_Witness ==
    /\ pc = "done"
    /\ C7Case
    /\ sent.opts[1] = "R2"
    /\ routes = Some(<< <<ZeroAddr, ZeroAddr, <<10, 0, 0, 1>>>>,
                        <<<<172, 16, 0, 0>>, <<255, 240, 0, 0>>, <<10, 0, 0, 4>>>> >>)

\* a validated response without option 245
C8Case ==
    /\ Validated
    /\ validate_dhcp_resp(Val(req), Val(response)) = "return None"
    /\ Count(sent, 245) = 0

\* C8: a validated response without option 245 is parsed without failure,
\* the endpoint stays unset and options 3 and 249 are decoded
C8_NoEndpointStillCompletes ==
    C8Case => /\ pc # "failed"
              /\ walk.fault = ""
              /\ Parsed => /\ endpoint = None
                           /\ Count(sent, 3) > 0 => gateway # None
                           /\ Count(sent, 249) > 0 => routes # None

\* offsets of the request that hold no field value
UnusedOffsets == (0..243) \ ((0..2) \cup (4..7) \cup (28..33) \cup (236..243))

\* C9: the request has 244 bytes: 1, 1, 6, the transaction id at 4, the
\* hardware address at 0x1C, cookie and options at 0xEC, zero elsewhere
C9_RequestLayout ==
    req # None =>
        LET r == Val(req)
        IN  /\ Len(r) = 244
            /\ Slice(r, 0, 3) = <<1, 1, 6>>
            /\ Slice(r, 4, 8) = trans_id
            /\ Slice(r, 28, 34) = mac_addr
            /\ Slice(r, 236, 244) = <<99, 130, 83, 99, 53, 1, 1, 255>>
            /\ \A k \in UnusedOffsets : At(r, k) = 0

C9_Witness ==
    /\ req # None
    /\ mac_addr = <<0, 21, 93, 170, 187, 204>>
    /\ trans_id = <<222, 173, 190, 239>>
    /\ Val(req)[29] = 0 /\ Val(req)[30] = 21

\* the route_add calls conf_routes owes for the lease, in order
GatewayCalls ==
    IF gateway # None THEN <<route_add(ZeroAddr, ZeroAddr, Val(gateway))>> ELSE <<>>
RouteCalls(n) ==
    IF routes # None THEN SubSeq(Val(routes), 1, n) ELSE <<>>

\* C10: conf_routes issues route_add(0, 0, gateway) first if the gateway is
\* set, then one route_add per route in parsed order, and nothing else
C10_RouteAddOrder ==
    /\ pc \notin {"conf_routes", "done"} => routeAdds = <<>>
    /\ pc = "conf_routes" => routeAdds = GatewayCalls \o RouteCalls(ridx - 1)
    /\ pc = "done" =>
          routeAdds = GatewayCalls \o RouteCalls(IF routes # None THEN Len(Val(routes)) ELSE 0)

C10_Witness ==
    /\ pc = "done"
    /\ gateway # None
    /\ routes # None
    /\ Len(Val(routes)) = 2
    /\ Len(routeAdds) = 3
    /\ routeAdds[1] = <<ZeroAddr, ZeroAddr, GatewayAddr>>

\* the number of routes of the lease
RouteCount == IF routes # None THEN Len(Val(routes)) ELSE 0

\* C11: a route_add that fails does not keep conf_routes from the routes that
\* follow: whatever the calls returned, every route of the lease gets its call
C11_FailureDoesNotBlock ==
    /\ Len(routeRets) = Len(routeAdds)
    /\ pc = "conf_routes" => Len(routeAdds) = Len(GatewayCalls) + (ridx - 1)
    /\ pc = "done" => Len(routeAdds) = Len(GatewayCalls) + RouteCount

C11_Witness ==
    /\ pc = "done"
    /\ gateway # None
    /\ RouteCount = 2
    /\ routeRets = <<1, 1, 0>>
    /\ Len(routeAdds) = 3

\* the positions of calls that hold a call of the function
CallsOf(name) == {k \in 1..Len(calls) : calls[k][1] = name}

\* C12: the request is built once, before the first attempt, and every
\* attempt hands socket_send that buffer: transaction id and all other bytes
\* are the same in all attempts
C12_RequestBuiltOnce ==
    /\ Cardinality(CallsOf("build_dhcp_request")) <= 1
    /\ sends > 0 =>
          /\ calls[1] = Call("build_dhcp_request", "")
          /\ Cardinality(wire) = 1
          /\ \A b \in wire : b = Val(req) /\ Slice(b, 4, 8) = trans_id

C12_Witness ==
    /\ sends = 3
    /\ pc = "recv"
    /\ wire = {Val(req)}
    /\ Cardinality(CallsOf("socket_send")) = 3

\* C13: a socket is open only inside socket_send: not while the loop sleeps,
\* not when the next attempt begins (so at most one is open), and not after
\* _send_dhcp_req has returned
C13_SocketScoped ==
    /\ sockOpen => pc \in {"recv", "finally"}
    /\ pc \in {"allow", "socket", "validate", "except"} \cup AfterLoop => ~sockOpen

C13_Witness ==
    /\ pc = "except"
    /\ attempt = 2
    /\ waited = timeoutSeconds
    /\ ~sockOpen

\* positions inside the loop of _send_dhcp_req
InLoop == {"allow", "socket", "recv", "finally", "validate", "except"}

\* C14: a failed attempt k (no datagram, or one that validation does not
\* pass) is followed by a sleep of the k-th schedule entry, the fifth
\* included; nothing is slept before the first attempt or after a success
C14_SleepAfterEachFailure ==
    /\ pc \in InLoop => sleeps = SubSeq(waiting_duration, 1, attempt - 1)
    /\ (pc \in AfterLoop /\ attempt > 0 /\ error # "Error") =>
          sleeps = SubSeq(waiting_duration, 1,
                          IF LastAttemptFailed THEN attempt ELSE attempt - 1)

RECURSIVE SumSeq(_)
SumSeq(q) == IF q = <<>> THEN 0 ELSE Head(q) + SumSeq(Tail(q))

\* seconds the call has spent sleeping and waiting on receive
Elapsed == SumSeq(sleeps) + waited

\* C15 as stated: the loop spends at most sum(schedule) + attempts x timeout,
\* about 160 seconds in the worst case
C15_AtMostAbout160 ==
    /\ Elapsed <= SumSeq(waiting_duration) + Len(waiting_duration) * timeoutSeconds
    /\ Elapsed <= 160

\* C15 amended: the loop spends at most sum(schedule) + attempts x timeout
\* seconds sleeping and receiving, which is 160 + 5 x 10 = 210 seconds
C15_AtMost210 ==
    /\ SumSeq(waiting_duration) + Len(waiting_duration) * timeoutSeconds = 210
    /\ Elapsed <= 210
    /\ (pc = "failed" /\ error = "DhcpError") => Elapsed >= SumSeq(waiting_duration)

C15_Witness ==
    /\ pc = "failed"
    /\ error = "DhcpError"
    /\ sleeps = waiting_duration
    /\ waited = 50
    /\ Elapsed = 210

\* C16: every attempt calls allow_dhcp_broadcast once, before its send: n
\* attempts make n calls, and each socket_send follows an allow_dhcp_broadcast
\* of the same attempt
C16_AllowBeforeEachSend ==
    /\ pc = "allow" => (allows = attempt - 1 /\ sends = attempt - 1)
    /\ pc = "socket" => (allows = attempt /\ sends = attempt - 1)
    /\ pc \in {"recv", "finally", "validate", "except"} =>
          (allows = attempt /\ sends = attempt)
    /\ pc \in AfterLoop =>
          (allows = attempt /\ sends = IF error = "Error" THEN attempt - 1 ELSE attempt)
    /\ Cardinality(CallsOf("allow_dhcp_broadcast")) = allows
    /\ Cardinality(CallsOf("socket_send")) = sends
    /\ \A k \in CallsOf("socket_send") :
          k > 1 /\ calls[k - 1] = Call("allow_dhcp_broadcast", "")

C16_Witness ==
    /\ pc = "except"
    /\ attempt = 4
    /\ allows = 4
    /\ sends = 4
    /\ calls[Len(calls)] = Call("socket_send", "")
    /\ calls[Len(calls) - 1] = Call("allow_dhcp_broadcast", "")

\* the field of the response at a..b-1 differs from the request's
Differs(a, b) == Slice(Val(response), a, b) # Slice(Val(req), a, b)

\* C17: validate_dhcp_resp reports the first check that fails in the order
\* length, cookie, transaction id, hardware address
C17_FirstFailingCheckReported ==
    response # None =>
        LET out == validate_dhcp_resp(Val(req), Val(response))
            long == Len(Val(response)) >= 246
        IN  /\ ~long => out = "return False"
            /\ (long /\ Differs(236, 240)) => out = "raise Cookie"
            /\ (long /\ ~Differs(236, 240) /\ Differs(4, 8)) => out = "raise TransactionID"
            /\ (long /\ ~Differs(236, 240) /\ ~Differs(4, 8) /\ Differs(28, 34)) =>
                  out = "raise Mac Addr"

C17_Witness ==
    /\ pc = "except"
    /\ response # None
    /\ Len(Val(response)) >= 246
    /\ Differs(236, 240)
    /\ Differs(4, 8)
    /\ Differs(28, 34)
    /\ validate_dhcp_resp(Val(req), Val(response)) = "raise Cookie"

\* the positions of calls that belong to the attempts of the loop
AttemptCalls == CallsOf("allow_dhcp_broadcast") \cup CallsOf("socket_send")
Stops == CallsOf("stop_dhcp_service")
Starts == CallsOf("start_dhcp_service")
RouteSets == CallsOf("set_route_for_dhcp_broadcast")
RouteRemovals == CallsOf("remove_route_for_dhcp_broadcast")

\* C18: a service that send_dhcp_req stopped was stopped before the first
\* attempt and is started again after the last; a service it did not stop it
\* does not start
C18_StoppedServiceRestarted ==
    /\ \A k \in Stops : \A j \in AttemptCalls : k < j
    /\ \A k \in Starts : Stops # {} /\ \A j \in AttemptCalls : j < k
    /\ Cardinality(Starts) <= Cardinality(Stops)
    /\ (pc \in Ended /\ Stops # {}) => (Starts # {} /\ dhcpRunning)

\* C19: the broadcast route is installed exactly when the default route was
\* found missing, before the first send; it is removed after the last
\* attempt exactly when it was installed, for the same interface name, also
\* when a default route has appeared in between
C19_BroadcastRouteInstalledAndRemoved ==
    /\ pc \notin {"start", "set_route"} => (RouteSets # {} <=> missing_default_route)
    /\ \A k \in RouteSets : \A j \in AttemptCalls : k < j
    /\ \A k \in RouteRemovals :
          /\ \A j \in AttemptCalls : j < k
          /\ \E j \in RouteSets : calls[j][2] = calls[k][2]
    /\ pc \in Ended => /\ Cardinality(RouteRemovals) = Cardinality(RouteSets)
                        /\ ~bcastRoute

\* positions after the cleanup of send_dhcp_req
AfterCleanup == {"check_resp", "parse", "conf_gateway", "conf_routes", "done"}

\* C20: when the attempts are exhausted, and when a response was returned,
\* start_dhcp_service (if the service was stopped) and then
\* remove_route_for_dhcp_broadcast (if the route was installed) have been
\* called before the DhcpError is raised or the response is parsed
C20_CleanupBeforeOutcome ==
    /\ ((pc \in AfterCleanup \/ (pc = "failed" /\ error # "Error")) /\ attempt > 0) =>
          /\ Cardinality(Starts) = Cardinality(Stops)
          /\ Cardinality(RouteRemovals) = Cardinality(RouteSets)
          /\ \A k \in Starts : \A j \in RouteRemovals : k < j
          /\ \A k \in Starts \cup RouteRemovals : \A j \in AttemptCalls : j < k
          /\ dhcpRunning = dhcpEnabled
          /\ ~bcastRoute
    /\ pc \in InLoop \cup {"start_dhcp", "remove_route"} =>
          (error = "" /\ walk = walk_idle /\ endpoint = None)

C20_Witness ==
    /\ pc = "failed"
    /\ error = "DhcpError"
    /\ sends = 5
    /\ Len(calls) >= 2
    /\ calls[Len(calls) - 1] = Call("start_dhcp_service", "")
    /\ calls[Len(calls)] = Call("remove_route_for_dhcp_broadcast", "eth1")

\* the positions of the option list that hold the code
PositionsOf(s, code) == {k \in 1..Len(s.opts) : CodeOf(s.opts[k]) = code}

\* the option list of the response holds code before its first option 255
BeforeEnd(s, code) ==
    \E k \in PositionsOf(s, code) : \A j \in PositionsOf(s, 255) : k < j

\* the options before the first option 255 are laid out as their length says
Aligned(s) ==
    \A k \in 1..Len(s.opts) :
        (\A j \in PositionsOf(s, 255) : k < j) =>
            s.opts[k] \in WellFormedOpts \cup {"Ebad", "Gbad", "Z"}

\* C21: option 255 at a walk position ends the walk at once, nothing behind
\* it is decoded and what was decoded before it is returned; a turn of the
\* loop at any other code moves the cursor by its length byte plus 2
C21_EndStopsWalkOthersAdvance ==
    /\ [](( Parsed /\ Aligned(sent) /\ PositionsOf(sent, 255) # {}) =>
            /\ endpoint # None => BeforeEnd(sent, 245)
            /\ gateway # None => BeforeEnd(sent, 3)
            /\ routes # None => BeforeEnd(sent, 249))
    /\ [][ /\ (pc = "parse" /\ walk' # walk) =>
               /\ OptionAt(Val(resp), walk.i) # 255
               /\ walk'.i = walk.i + LengthAt(Val(resp), walk.i) + 2
           /\ (pc = "parse" /\ pc' # "parse") =>
               /\ walk' = walk
               /\ endpoint' = walk.endpoint
               /\ gateway' = walk.gateway
               /\ routes' = walk.routes ]_vars

\* the walk is at an option 3 or 245 whose length byte is not 4 or whose 4
\* payload bytes end behind the buffer
AtMalformedAddr(code) ==
    /\ pc = "parse"
    /\ ~WalkEnds(Val(resp), walk)
    /\ OptionAt(Val(resp), walk.i) = code
    /\ \/ LengthAt(Val(resp), walk.i) # 4
       \/ walk.i + 6 > Len(Val(resp))

\* the name of the last option of the list with the code
LastOf(s, code) ==
    s.opts[CHOOSE k \in PositionsOf(s, code) : \A j \in PositionsOf(s, code) : j <= k]

\* C22: at an option 3 or 245 of a length other than 4, or cut off by the end
\* of the buffer, the field is left unset, nothing fails and the walk goes on
\* at cursor + length + 2, so that the options behind it are decoded
C22_MalformedAddrOmitted ==
    /\ [][ /\ (AtMalformedAddr(3) /\ walk' # walk) =>
               walk' = [walk EXCEPT !.gateway = None,
                                    !.i = @ + LengthAt(Val(resp), walk.i) + 2]
           /\ (AtMalformedAddr(245) /\ walk' # walk) =>
               walk' = [walk EXCEPT !.endpoint = None,
                                    !.i = @ + LengthAt(Val(resp), walk.i) + 2]
           /\ (AtMalformedAddr(3) \/ AtMalformedAddr(245)) => (pc' = "parse" /\ error' = "")
         ]_vars
    /\ []((Parsed /\ sent.opts = <<"E", "Gbad", "R1">>) =>
            /\ endpoint = Some(EndpointAddr)
            /\ gateway = None
            /\ routes = Some(ExpectedRoutes("R1")))
    /\ []((Parsed /\ sent.opts = <<"Gbad", "U", "G">>) => gateway = Some(GatewayAddr))

C22_Witness ==
    /\ pc = "done"
    /\ sent.opts = <<"E", "Gbad", "R1">>
    /\ endpoint = Some(EndpointAddr)
    /\ gateway = None
    /\ routes # None
    /\ Len(routeAdds) = 1

\* the entries of an option 249 that lie completely inside its payload, which
\* ends before stop: decoding from j stops at the first entry that does not
RECURSIVE routes_inside(_, _, _, _)
routes_inside(buf, j, stop, acc) ==
    IF ~(j < stop) THEN acc
    ELSE
      LET mask_len_bits == At(buf, j)
          mask_len_bytes == ((mask_len_bits + 7) - ((mask_len_bits + 7) % 8)) \div 8
      IN  IF j + 1 + mask_len_bytes + 4 > stop THEN acc
          ELSE routes_inside(buf, j + 1 + mask_len_bytes + 4, stop,
                             Append(acc, route_entry(buf, j)))

\* C23: an option 249 of declared length L that is decoded without an
\* exception yields exactly the entries that lie completely inside its L
\* payload bytes; no route is built from bytes behind the option
C23_RoutesInsideOption ==
    [][ ( /\ pc = "parse"
          /\ ~WalkEnds(Val(resp), walk)
          /\ OptionAt(Val(resp), walk.i) = 249
          /\ walk' # walk
          /\ walk'.fault = "" ) =>
        walk'.routes = Some(routes_inside(Val(resp), walk.i + 2,
                                          walk.i + LengthAt(Val(resp), walk.i) + 2, <<>>))
      ]_vars

\* call c is inside an attempt, between allow_dhcp_broadcast and socket_send,
\* and the cleanup of the other call d has restarted the DHCP client service
\* that c had stopped, or removed the broadcast route that c relies on
AttemptAfterCleanupOf(c, d) ==
    /\ callPc[c] = "send"
    /\ \/ dhcpEnabled /\ dhcpRunning /\ callPc[d] \in {"remove_route", "done"}
       \/ callMissing[c] /\ ~bcastRoute /\ callPc[d] = "done"

AttemptAfterOthersCleanup ==
    \E c \in CallIds : \E d \in CallIds \ {c} : AttemptAfterCleanupOf(c, d)

\* C24: with whole calls serialized, no call performs an attempt after the
\* cleanup of the other call has restarted the service or removed the route;
\* without serialization such a state is reached (C24_Witness)
C24_SerializedCallsDoNotInterfere == serialized => ~AttemptAfterOthersCleanup

C24_Witness == ~serialized /\ AttemptAfterOthersCleanup

\* the fields of the handler that send_dhcp_req assigns
lease == <<endpoint, gateway, routes>>

\* C25: a run() whose send_dhcp_req fails calls no route_add and leaves
\* endpoint, gateway and routes as they were; the three are assigned in one
\* step, from the parse of a response that _send_dhcp_req returned, after
\* start_dhcp_service and remove_route_for_dhcp_broadcast; route_add is called
\* by conf_routes alone
C25_FailureLeavesLease ==
    /\ [](pc = "failed" =>
            (routeAdds = <<>> /\ endpoint = None /\ gateway = None /\ routes = None))
    /\ [][ (lease' # lease \/ (pc' = "conf_gateway" /\ pc # "conf_gateway")) =>
              /\ pc = "parse" /\ pc' = "conf_gateway"
              /\ resp # None /\ error = ""
              /\ lease' = <<walk.endpoint, walk.gateway, walk.routes>>
              /\ Cardinality(Starts) = Cardinality(Stops)
              /\ Cardinality(RouteRemovals) = Cardinality(RouteSets)
              /\ dhcpRunning = dhcpEnabled /\ ~bcastRoute
         ]_vars
    /\ [][ (pc' = "failed" \/ pc \notin {"conf_gateway", "conf_routes"}) =>
              routeAdds' = routeAdds ]_vars

C25_Witness ==
    /\ pc = "failed"
    /\ error = "DhcpError"
    /\ sleeps = waiting_duration
    /\ waited = 0
    /\ lease = <<None, None, None>>
    /\ routeAdds = <<>>

\* the route cursor inside the option 249 at the walk cursor: every entry
\* moves it on by at least 5, and the loop is left at the first value at or
\* behind the end of the option, or by an exception
RouteCursorIncreases ==
    LET buf  == Val(resp)
        stop == walk.i + LengthAt(buf, walk.i) + 2
        cs   == route_cursors(buf, walk.i + 2, stop)
    IN  /\ cs[1] = walk.i + 2
        /\ \A k \in 1..(Len(cs) - 1) : cs[k] < stop /\ cs[k + 1] >= cs[k] + 5
        /\ Len(cs) <= LengthAt(buf, walk.i) \div 5 + 2

\* C26: parse_dhcp_resp terminates: every turn of the option walk moves the
\* cursor on by length + 2 >= 2 (or leaves the walk), the walk goes on only
\* below the buffer length and before option 255, and in an option 249 the
\* route cursor moves on by at least 5 per entry up to the end of the option
C26_WalkTerminates ==
    /\ [](pc = "parse" => walk.i >= 240)
    /\ []((pc = "parse" /\ ~WalkEnds(Val(resp), walk)) =>
            /\ walk.i < Len(Val(resp))
            /\ LengthAt(Val(resp), walk.i) + 2 >= 2
            /\ OptionAt(Val(resp), walk.i) = 249 => RouteCursorIncreases)
    /\ [][ pc = "parse" =>
             IF pc' = "parse"
             THEN /\ walk'.i = walk.i + LengthAt(Val(resp), walk.i) + 2
                  /\ walk'.i >= walk.i + 2
                  /\ walk'.fault = ""
                  /\ OptionAt(Val(resp), walk.i) = 249 =>
                        LET cs == route_cursors(Val(resp), walk.i + 2, walk'.i)
                        IN  /\ cs[Len(cs)] >= walk'.i
                            /\ Len(Val(walk'.routes)) = Len(cs) - 1
             ELSE \/ walk'.fault # "" /\ OptionAt(Val(resp), walk.i) = 249
                  \/ walk.i >= Len(Val(resp))
                  \/ OptionAt(Val(resp), walk.i) = 255 ]_vars

C26_Witness ==
    /\ pc = "done"
    /\ sent = [opts |-> <<"U", "R2", "G">>, tail |-> <<>>]
    /\ walk.i = Len(Val(resp))
    /\ Len(Val(routes)) = 2
    /\ route_cursors(Val(resp), 245, 257) = <<245, 250, 257>>

\* what the named option 3 or 245 decodes to on its own
ExpectedAddr(name) ==
    CASE name = "E" -> Some(EndpointAddr)
      [] name = "G" -> Some(GatewayAddr)
      [] OTHER -> None

\* C27: of several options 3, 245 or 249 before option 255 the last alone
\* counts: a later option 249 replaces the routes of an earlier one, and a
\* later option 3 or 245 of a length other than 4 unsets the field
C27_LastOccurrenceWins ==
    (Parsed /\ Aligned(sent) /\ PositionsOf(sent, 255) = {}) =>
        /\ endpoint = IF PositionsOf(sent, 245) = {} THEN None
                      ELSE ExpectedAddr(LastOf(sent, 245))
        /\ gateway = IF PositionsOf(sent, 3) = {} THEN None
                     ELSE ExpectedAddr(LastOf(sent, 3))
        /\ routes = IF PositionsOf(sent, 249) = {} THEN None
                    ELSE Some(ExpectedRoutes(LastOf(sent, 249)))

C27_Witness ==
    /\ pc = "done"
    /\ sent.opts = <<"E", "R1", "R2">>
    /\ routes = Some(ExpectedRoutes("R2"))
    /\ Len(routeAdds) = 2

====
